---------------------------- MODULE Spec2Model ----------------------------
(***************************************************************************)
(* A model of petrel/cmdline.py: the petrel command line (submit, status,  *)
(* kill), the resolution of the JVMPetrel archive under /tmp/petrel, and   *)
(* the argument vectors handed to os.execvp.                               *)
(*                                                                         *)
(* A Python str is a sequence of one-character strings; a fixed literal of *)
(* the source ("-client", "-Dstorm.home=", "/tmp/petrel/storm-petrel-") is *)
(* kept as one element.  None is the one-element sequence <<"None">>,      *)
(* which no input contains.                                                *)
(***************************************************************************)
EXTENDS Naturals, Sequences, FiniteSets, TLC

VARIABLES
    scratch,    \* /tmp/petrel: [kind: "absent" | "file" | "dir", files: set of paths]
    mvnCount,   \* per version, the number of 'mvn ... assembly:assembly' runs so far
    built,      \* the versions whose archive build_petrel_jar has built and copied so far
    pc,         \* per process, the statement main() is at
    args,       \* per process, the command line as argparse parsed it
    loc,        \* per process, the local variables of get_sourcejar/build_petrel_jar/submit/kill
    res,        \* per process, how the process ended: replaced (execvp) or exited
    log,        \* per process, the steps of submit() entered in this run, in order
    start,      \* per process, scratch and mvnCount as they were when the run began
    call        \* a single call of a pure function: [f, in, done, out]

vars == <<scratch, mvnCount, built, pc, args, loc, res, log, start, call>>

(***************************************************************************)
(* Bounds.                                                                 *)
(***************************************************************************)
MaxBuilds == 2      \* mvn runs counted per version
MaxOutLen == 7      \* length of a 'storm version' output in SpecFn
MaxCpLen == 4       \* length of a 'storm classpath' output in SpecFn
MaxPathLen == 4     \* length of a 'which storm' output in SpecFn

(***************************************************************************)
(* Python values and str methods.                                          *)
(***************************************************************************)
None == <<"None">>

\* 'is not None' in the place of a truth test
TruthyNotNone(v) == v # None

\* the truth value of a str or None: 'if v:'
Truthy(v) == v # None /\ v # <<>>

Whitespace == {" ", "\n"}

RECURSIVE LStrip(_)
LStrip(s) == IF s # <<>> /\ Head(s) \in Whitespace THEN LStrip(Tail(s)) ELSE s

RECURSIVE RStrip(_)
RStrip(s) ==
    IF s # <<>> /\ s[Len(s)] \in Whitespace THEN RStrip(SubSeq(s, 1, Len(s) - 1)) ELSE s

Strip(s) == RStrip(LStrip(s))

RECURSIVE Join(_, _)
Join(sep, list) ==
    IF list = <<>> THEN <<>>
    ELSE IF Len(list) = 1 THEN list[1]
    ELSE list[1] \o sep \o Join(sep, Tail(list))

\* str.rfind(c), 0-based as in Python: -1 (not found) is returned as 0 by RFind1,
\* the 1-based position of the last c.
RFind1(s, c) ==
    IF \E i \in 1..Len(s) : s[i] = c
    THEN CHOOSE i \in 1..Len(s) : s[i] = c /\ \A j \in (i + 1)..Len(s) : s[j] # c
    ELSE 0

RECURSIVE RStripChar(_, _)
RStripChar(s, c) ==
    IF s # <<>> /\ s[Len(s)] = c THEN RStripChar(SubSeq(s, 1, Len(s) - 1), c) ELSE s

\* posixpath.dirname
Dirname(p) ==
    LET i == RFind1(p, "/")
        head == SubSeq(p, 1, i)
    IN  IF head # <<>> /\ (\E k \in 1..Len(head) : head[k] # "/")
        THEN RStripChar(head, "/")
        ELSE head

(***************************************************************************)
(* get_storm_version: re.search('^\d\.\d\.\d', version).                   *)
(***************************************************************************)
Digit == {"0", "1", "2", "3", "4", "5", "6", "7", "8", "9"}

\* \d\.\d\.\d matched at position i
MatchAt(s, i) ==
    /\ i + 4 <= Len(s)
    /\ s[i] \in Digit /\ s[i + 1] = "." /\ s[i + 2] \in Digit
    /\ s[i + 3] = "." /\ s[i + 4] \in Digit

\* the pattern without its '^'
AnchorAnywhere(s, i) == TRUE

\* '^' without re.MULTILINE matches at the start of the string only
Anchor(s, i) == i = 1

\* re.search: the leftmost position where the pattern matches; None when none does
ReSearch(s) ==
    IF \E i \in 1..Len(s) : Anchor(s, i) /\ MatchAt(s, i)
    THEN LET i == CHOOSE k \in 1..Len(s) :
                    /\ Anchor(s, k) /\ MatchAt(s, k)
                    /\ \A j \in 1..(k - 1) : ~(Anchor(s, j) /\ MatchAt(s, j))
         IN  SubSeq(s, i, i + 4)
    ELSE None

AttributeError == <<"AttributeError">>

\* get_storm_version on the output of ['storm', 'version']; m.group(0) of None raises
get_storm_version(output) ==
    LET version == Strip(output)
        m == ReSearch(version)
    IN  IF m = None THEN AttributeError ELSE m


(***************************************************************************)
(* The argument vectors of submit and kill.                                *)
(***************************************************************************)
\* the extra entry appended instead of prepended
ClassPathExtraLast(cp_output, destjar, extrastormcp) ==
    LET storm_class_path == <<Strip(cp_output), destjar>>
    IN  IF extrastormcp # None
        THEN storm_class_path \o <<extrastormcp>>
        ELSE storm_class_path

\* storm_class_path of submit, from the output of ["storm", "classpath"]
ClassPath(cp_output, destjar, extrastormcp) ==
    LET storm_class_path == <<Strip(cp_output), destjar>>
    IN  IF extrastormcp # None
        THEN <<extrastormcp>> \o storm_class_path
        ELSE storm_class_path

\* storm_home of submit, from the output of ['which', 'storm'] (not stripped)
StormHome(which_output) == Dirname(Dirname(which_output))

\* 'submit_args += [name]' without its 'if name:'
SubmitArgvNameAlways(storm_home, storm_class_path, destjar, name) ==
    << <<>>, <<"-client">>, <<"-Dstorm.options=">>, <<"-Dstorm.home=">> \o storm_home,
       <<"-cp">>, Join(<<":">>, storm_class_path), <<"-Dstorm.jar=">> \o destjar,
       <<"storm.petrel.GenericTopology">>, name >>

\* submit_args as passed to os.execvp('java', submit_args)
SubmitArgv(storm_home, storm_class_path, destjar, name) ==
    LET submit_args ==
            << <<>>,
               <<"-client">>,
               <<"-Dstorm.options=">>,
               <<"-Dstorm.home=">> \o storm_home,
               <<"-cp">>, Join(<<":">>, storm_class_path),
               <<"-Dstorm.jar=">> \o destjar,
               <<"storm.petrel.GenericTopology">> >>
    IN  IF Truthy(name) THEN submit_args \o <<name>> ELSE submit_args

\* A configuration (the dict read_yaml returns) is a record over ConfigKeys; a key
\* the file does not hold has the value Absent.
Absent == <<"absent">>

ConfigKeys == {"nimbus.host", "topology.workers"}

\* dict.get(key): None when the key is missing
DictGet(config, key) == IF config[key] = Absent THEN None ELSE config[key]

\* kill_args as passed to os.execvp('storm', kill_args)
KillArgv(name, config) ==
    LET nimbus_host == DictGet(config, "nimbus.host")
        kill_args == << <<>>, <<"kill">>, name >>
    IN  IF Truthy(nimbus_host)
        THEN kill_args \o << <<"-c">>, <<"nimbus.host=">> \o nimbus_host >>
        ELSE kill_args

(***************************************************************************)
(* The scratch directory /tmp/petrel.                                      *)
(***************************************************************************)
\* '/tmp/petrel/storm-petrel-%s-SNAPSHOT.jar' % version
JarPath(version) == <<"/tmp/petrel/storm-petrel-">> \o version \o <<"-SNAPSHOT.jar">>

AbsentDir == [kind |-> "absent", files |-> {}]

EmptyDir == [kind |-> "dir", files |-> {}]

\* os.path.isfile(path) for a path directly under /tmp/petrel
IsFile(path) == scratch.kind = "dir" /\ path \in scratch.files

\* os.path.isdir('/tmp/petrel')
IsDir == scratch.kind = "dir"

(***************************************************************************)
(* Inputs of the state machine: command lines and the outputs of the       *)
(* external commands.                                                      *)
(***************************************************************************)
Procs == {1, 2}

V1 == <<"1", ".", "1", ".", "1">>

V2 == <<"2", ".", "1", ".", "1">>

Versions == {V1, V2}

\* outputs of ['storm', 'version']: two versions, and one get_storm_version rejects
VersionOutputs == {V1 \o <<"\n">>, V2 \o <<" ", "a", "\n">>, <<"a">> \o V1}

\* outputs of ["storm", "classpath"]
CpOutputs == {<<"a", ":", "b", "\n">>, <<"a">>}

\* outputs of ['which', 'storm']
WhichOutputs == {<<"/", "o", "/", "b", "/", "s", "\n">>}

StaleFile == <<"/tmp/petrel/stale">>

ScratchFiles == {JarPath(v) : v \in Versions} \cup {StaleFile}

ScratchStates ==
    {AbsentDir, [kind |-> "file", files |-> {}]}
        \cup {[kind |-> "dir", files |-> F] : F \in SUBSET ScratchFiles}

NoArgs ==
    [cmd |-> "none", parse |-> "ok", sourcejar |-> None, destjar |-> None,
     name |-> None, extrastormcp |-> None]

DestJar == <<"/", "x", "/", "d">>

\* 'petrel submit ...' as parse_args leaves it: --sourcejar and --extrastormcp
\* default to None, the positional name (nargs='?') to None
SubmitCmds ==
    {[cmd |-> "submit", parse |-> "ok", sourcejar |-> s, destjar |-> DestJar,
      name |-> n, extrastormcp |-> e] :
        s \in {None, <<>>, <<"/", "s">>},
        n \in {None, <<>>, <<"t">>},
        e \in {None, <<"/", "e">>}}

KillCmds == {[NoArgs EXCEPT !.cmd = "kill", !.name = n] : n \in {<<"t">>}}

StatusCmds == {[NoArgs EXCEPT !.cmd = "status"]}

\* a command line argparse rejects (exit status 2) or answers with the help text
\* (-h: exit status 0)
UnparsedCmds ==
    {[NoArgs EXCEPT !.cmd = c, !.parse = r] :
        c \in {"submit", "kill", "status"}, r \in {"usage", "help"}}

AllCmds == SubmitCmds \cup KillCmds \cup StatusCmds \cup UnparsedCmds

\* the command lines of the two racing processes: submit without --sourcejar
RaceCmds ==
    {[NoArgs EXCEPT !.cmd = "submit", !.destjar = DestJar]}

ConfigValues == {None, <<>>, <<"f">>}

Configs == [ConfigKeys -> ConfigValues \cup {Absent}]

NoLocals ==
    [storm_version |-> None, version |-> None, sourcejar |-> None,
     storm_class_path |-> <<>>, storm_home |-> None, config |-> None,
     failed |-> "none"]

NoResult == [status |-> "none", code |-> 255, prog |-> "none", argv |-> <<>>, error |-> "none"]

NoCall == [f |-> "none", in |-> <<>>, done |-> FALSE, out |-> <<>>]


(***************************************************************************)
(* The state machine.  A process slot p is one run of main(); when the run *)
(* has ended (os.execvp replaced the process, or sys.exit) the next        *)
(* invocation of the tool may take the slot.                               *)
(***************************************************************************)
Init ==
    /\ scratch \in ScratchStates
    /\ mvnCount = [v \in Versions |-> 0]
    /\ built = {}
    /\ pc = [p \in Procs |-> "idle"]
    /\ args = [p \in Procs |-> NoArgs]
    /\ loc = [p \in Procs |-> NoLocals]
    /\ res = [p \in Procs |-> NoResult]
    /\ log = [p \in Procs |-> <<>>]
    /\ start = [p \in Procs |-> [scratch |-> scratch, mvnCount |-> mvnCount]]
    /\ call = NoCall

Goto(p, label) == pc' = [pc EXCEPT ![p] = label]

\* an exception leaves the function; main's 'except Exception' is where it lands
Raise(p, step) ==
    /\ pc' = [pc EXCEPT ![p] = "except"]
    /\ loc' = [loc EXCEPT ![p].failed = step]

\* the shell starts 'petrel ...' with the command line a
Start(p, cmds) ==
    /\ pc[p] \in {"idle", "exited", "replaced"}
    /\ \E a \in cmds : args' = [args EXCEPT ![p] = a]
    /\ loc' = [loc EXCEPT ![p] = NoLocals]
    /\ res' = [res EXCEPT ![p] = NoResult]
    /\ log' = [log EXCEPT ![p] = <<>>]
    /\ start' = [start EXCEPT ![p] = [scratch |-> scratch, mvnCount |-> mvnCount]]
    /\ Goto(p, "main")
    /\ UNCHANGED <<scratch, mvnCount, built, call>>

\* main: parser.parse_args() and the dispatch func(**args.__dict__).  argparse ends
\* the process itself (SystemExit, which 'except Exception' does not catch): status 2
\* on a usage error, status 0 after printing the help.
Main(p) ==
    /\ pc[p] = "main"
    /\ IF args[p].parse = "usage"
       THEN /\ Goto(p, "exited")
            /\ res' = [res EXCEPT ![p] = [NoResult EXCEPT !.status = "exited", !.code = 2,
                                                          !.error = "parse_args"]]
       ELSE IF args[p].parse = "help"
       THEN /\ Goto(p, "exited")
            /\ res' = [res EXCEPT ![p] = [NoResult EXCEPT !.status = "exited", !.code = 0]]
       ELSE /\ Goto(p, args[p].cmd)
            /\ UNCHANGED res
    /\ UNCHANGED <<scratch, mvnCount, built, args, loc, log, start, call>>

\* a handler that reports the error and ends with status 0
HandlerStatusZero(error) == 0

\* main's handler: print str(e); traceback.print_exc(); sys.exit(1)
HandlerStatus(error) == 1

MainExcept(p) ==
    /\ pc[p] = "except"
    /\ Goto(p, "exited")
    /\ res' = [res EXCEPT ![p] = [NoResult EXCEPT !.status = "exited",
                                                  !.code = HandlerStatus(loc[p].failed),
                                                  !.error = loc[p].failed]]
    /\ UNCHANGED <<scratch, mvnCount, built, args, loc, log, start, call>>

\* get_sourcejar called whatever --sourcejar holds
NeedsResolveAlways(sourcejar) == TRUE

\* submit: 'if not sourcejar: sourcejar = get_sourcejar()'
NeedsResolve(sourcejar) == ~Truthy(sourcejar)

SubmitEntry(p) ==
    /\ pc[p] = "submit"
    /\ IF NeedsResolve(args[p].sourcejar)
       THEN /\ Goto(p, "gs_version")
            /\ log' = [log EXCEPT ![p] = Append(@, "resolve")]
            /\ UNCHANGED loc
       ELSE /\ Goto(p, "build_jar")
            /\ loc' = [loc EXCEPT ![p].sourcejar = args[p].sourcejar]
            /\ UNCHANGED log
    /\ UNCHANGED <<scratch, mvnCount, built, args, res, start, call>>

\* get_sourcejar: storm_version = get_storm_version().  check_output raises on a
\* nonzero exit; m.group(0) raises when the output does not match.
GsVersion(p) ==
    /\ pc[p] = "gs_version"
    /\ \/ Raise(p, "version")
       \/ \E output \in VersionOutputs :
            LET v == get_storm_version(output)
            IN  IF v = AttributeError
                THEN Raise(p, "version_parse")
                ELSE /\ loc' = [loc EXCEPT ![p].storm_version = v]
                     /\ Goto(p, "gs_isfile")
    /\ UNCHANGED <<scratch, mvnCount, built, args, res, log, start, call>>

\* build_petrel_jar called on every get_sourcejar
ArchiveCachedNever(path) == FALSE

\* the test of get_sourcejar without its 'not'
ArchiveCachedInverted(path) == ~IsFile(path)

\* get_sourcejar: 'if not os.path.isfile(sourcejar): build_petrel_jar()'
ArchiveCached(path) == IsFile(path)

GsIsFile(p) ==
    /\ pc[p] = "gs_isfile"
    /\ IF ArchiveCached(JarPath(loc[p].storm_version))
       THEN Goto(p, "gs_return")
       ELSE Goto(p, "bp_version")
    /\ UNCHANGED <<scratch, mvnCount, built, args, loc, res, log, start, call>>

\* build_petrel_jar: version = get_storm_version()
BpVersion(p) ==
    /\ pc[p] = "bp_version"
    /\ \/ Raise(p, "version")
       \/ \E output \in VersionOutputs :
            LET v == get_storm_version(output)
            IN  IF v = AttributeError
                THEN Raise(p, "version_parse")
                ELSE /\ loc' = [loc EXCEPT ![p].version = v]
                     /\ Goto(p, "bp_isdir")
    /\ UNCHANGED <<scratch, mvnCount, built, args, res, log, start, call>>

\* build_petrel_jar: if os.path.isdir('/tmp/petrel')
BpIsDir(p) ==
    /\ pc[p] = "bp_isdir"
    /\ IF IsDir THEN Goto(p, "bp_rmtree") ELSE Goto(p, "bp_mkdir")
    /\ UNCHANGED <<scratch, mvnCount, built, args, loc, res, log, start, call>>

\* what shutil.rmtree('/tmp/petrel') leaves when it returns
Purged == AbsentDir

\* build_petrel_jar: shutil.rmtree('/tmp/petrel'); it raises when the directory is
\* gone by now or an entry cannot be removed, having removed any part of them
BpRmtree(p) ==
    /\ pc[p] = "bp_rmtree"
    /\ \/ /\ scratch.kind = "dir"
          /\ scratch' = Purged
          /\ Goto(p, "bp_mkdir")
          /\ UNCHANGED loc
       \/ /\ scratch.kind = "dir"
          /\ \E F \in SUBSET scratch.files : scratch' = [kind |-> "dir", files |-> F]
          /\ Raise(p, "rmtree")
       \/ /\ scratch.kind # "dir"
          /\ UNCHANGED scratch
          /\ Raise(p, "rmtree")
    /\ UNCHANGED <<mvnCount, built, args, res, log, start, call>>

\* build_petrel_jar: os.mkdir('/tmp/petrel'); it raises when the path exists
BpMkdir(p) ==
    /\ pc[p] = "bp_mkdir"
    /\ \/ /\ scratch.kind = "absent"
          /\ scratch' = EmptyDir
          /\ Goto(p, "bp_mvn")
          /\ UNCHANGED loc
       \/ /\ UNCHANGED scratch
          /\ Raise(p, "mkdir")
    /\ UNCHANGED <<mvnCount, built, args, res, log, start, call>>

\* build_petrel_jar: subprocess.check_call(['mvn', '-Dstorm_version=%s' % version,
\* 'assembly:assembly']) in jvmdir; it raises on a nonzero exit
BpMvn(p) ==
    /\ pc[p] = "bp_mvn"
    /\ mvnCount[loc[p].version] < MaxBuilds
    /\ mvnCount' = [mvnCount EXCEPT ![loc[p].version] = @ + 1]
    /\ \/ Goto(p, "bp_copy") /\ UNCHANGED loc
       \/ Raise(p, "mvn")
    /\ UNCHANGED <<scratch, built, args, res, log, start, call>>

\* the destination named without the version
CopiedUnversioned(version) ==
    [kind |-> "dir", files |-> scratch.files \cup {<<"/tmp/petrel/storm-petrel-SNAPSHOT.jar">>}]

\* the copy left out
CopySkipped(version) == scratch

\* /tmp/petrel after shutil.copyfile(..., '/tmp/petrel/storm-petrel-%s-SNAPSHOT.jar' % version)
CopiedTo(version) == [kind |-> "dir", files |-> scratch.files \cup {JarPath(version)}]

\* build_petrel_jar: shutil.copyfile(<jvmdir>/target/storm-petrel-<version>-SNAPSHOT.jar,
\* /tmp/petrel/storm-petrel-<version>-SNAPSHOT.jar); it raises when the source or the
\* directory of the destination is missing
BpCopy(p) ==
    /\ pc[p] = "bp_copy"
    /\ \/ /\ scratch.kind = "dir"
          /\ scratch' = CopiedTo(loc[p].version)
          /\ built' = built \cup {loc[p].version}
          /\ Goto(p, "bp_return")
          /\ UNCHANGED loc
       \/ /\ UNCHANGED <<scratch, built>>
          /\ Raise(p, "copyfile")
    /\ UNCHANGED <<mvnCount, args, res, log, start, call>>

\* build_petrel_jar returns to get_sourcejar
BpReturn(p) ==
    /\ pc[p] = "bp_return"
    /\ Goto(p, "gs_return")
    /\ UNCHANGED <<scratch, mvnCount, built, args, loc, res, log, start, call>>

\* get_sourcejar: 'return sourcejar', assigned in submit
GsReturn(p) ==
    /\ pc[p] = "gs_return"
    /\ loc' = [loc EXCEPT ![p].sourcejar = JarPath(loc[p].storm_version)]
    /\ Goto(p, "build_jar")
    /\ UNCHANGED <<scratch, mvnCount, built, args, res, log, start, call>>

\* submit: build_jar(source_jar_path=sourcejar, dest_jar_path=destjar, ...), of
\* petrel.package: it returns or raises
BuildJar(p) ==
    /\ pc[p] = "build_jar"
    /\ log' = [log EXCEPT ![p] = Append(@, "build_jar")]
    /\ \/ Goto(p, "classpath") /\ UNCHANGED loc
       \/ Raise(p, "build_jar")
    /\ UNCHANGED <<scratch, mvnCount, built, args, res, start, call>>

\* submit: storm_class_path from subprocess.check_output(["storm","classpath"])
QueryClasspath(p) ==
    /\ pc[p] = "classpath"
    /\ log' = [log EXCEPT ![p] = Append(@, "classpath")]
    /\ \/ Raise(p, "classpath")
       \/ \E output \in CpOutputs :
            /\ loc' = [loc EXCEPT ![p].storm_class_path =
                            ClassPath(output, args[p].destjar, args[p].extrastormcp)]
            /\ Goto(p, "which")
    /\ UNCHANGED <<scratch, mvnCount, built, args, res, start, call>>

\* submit: storm_home from subprocess.check_output(['which', 'storm'])
QueryWhich(p) ==
    /\ pc[p] = "which"
    /\ log' = [log EXCEPT ![p] = Append(@, "which")]
    /\ \/ Raise(p, "which")
       \/ \E output \in WhichOutputs :
            /\ loc' = [loc EXCEPT ![p].storm_home = StormHome(output)]
            /\ Goto(p, "exec")
    /\ UNCHANGED <<scratch, mvnCount, built, args, res, start, call>>

\* submit: os.execvp('java', submit_args); it returns only by raising OSError
ExecJava(p) ==
    /\ pc[p] = "exec"
    /\ log' = [log EXCEPT ![p] = Append(@, "exec")]
    /\ \/ /\ Goto(p, "replaced")
          /\ res' = [res EXCEPT ![p] =
                        [NoResult EXCEPT !.status = "replaced", !.prog = "java",
                            !.argv = SubmitArgv(loc[p].storm_home, loc[p].storm_class_path,
                                                args[p].destjar, args[p].name)]]
          /\ UNCHANGED loc
       \/ Raise(p, "exec") /\ UNCHANGED res
    /\ UNCHANGED <<scratch, mvnCount, built, args, start, call>>

\* kill: config = read_yaml(config), of petrel.util: a dict, or it raises
KillReadConfig(p) ==
    /\ pc[p] = "kill"
    /\ \/ Raise(p, "read_yaml")
       \/ \E c \in Configs :
            /\ loc' = [loc EXCEPT ![p].config = c]
            /\ Goto(p, "kill_exec")
    /\ UNCHANGED <<scratch, mvnCount, built, args, res, log, start, call>>

\* kill: os.execvp('storm', kill_args)
ExecStorm(p) ==
    /\ pc[p] = "kill_exec"
    /\ \/ /\ Goto(p, "replaced")
          /\ res' = [res EXCEPT ![p] =
                        [NoResult EXCEPT !.status = "replaced", !.prog = "storm",
                            !.argv = KillArgv(args[p].name, loc[p].config)]]
          /\ UNCHANGED loc
       \/ Raise(p, "exec") /\ UNCHANGED res
    /\ UNCHANGED <<scratch, mvnCount, built, args, log, start, call>>

\* status: petrel.status.status(...) returns (main returns: exit status 0) or raises
Status(p) ==
    /\ pc[p] = "status"
    /\ \/ /\ Goto(p, "exited")
          /\ res' = [res EXCEPT ![p] = [NoResult EXCEPT !.status = "exited", !.code = 0]]
          /\ UNCHANGED loc
       \/ Raise(p, "status") /\ UNCHANGED res
    /\ UNCHANGED <<scratch, mvnCount, built, args, log, start, call>>

ResolveStep(p) ==
    \/ GsVersion(p) \/ GsIsFile(p) \/ BpVersion(p) \/ BpIsDir(p) \/ BpRmtree(p)
    \/ BpMkdir(p) \/ BpMvn(p) \/ BpCopy(p) \/ BpReturn(p) \/ GsReturn(p)

SubmitStep(p) ==
    \/ Main(p) \/ MainExcept(p) \/ SubmitEntry(p) \/ ResolveStep(p)
    \/ BuildJar(p) \/ QueryClasspath(p) \/ QueryWhich(p) \/ ExecJava(p)

KillStep(p) == KillReadConfig(p) \/ ExecStorm(p)

\* one invocation of the tool at a time
Next == Start(1, AllCmds) \/ SubmitStep(1) \/ KillStep(1) \/ Status(1)

Spec == Init /\ [][Next]_vars

\* two invocations of 'petrel submit' (no --sourcejar), each run once, side by side
NextRace == \E p \in Procs : (pc[p] = "idle" /\ Start(p, RaceCmds)) \/ SubmitStep(p)

SpecRace == Init /\ [][NextRace]_vars


(***************************************************************************)
(* The pure functions on their own: one call, its input drawn from all     *)
(* strings up to a length.                                                 *)
(***************************************************************************)
StringsOver(chars, maxlen) == UNION {[1..n -> chars] : n \in 0..maxlen}

VersionCalls ==
    {[f |-> "get_storm_version", in |-> s, done |-> FALSE, out |-> <<>>] :
        s \in StringsOver({"1", "2", ".", " ", "a"}, MaxOutLen)}

ClassPathCalls ==
    {[f |-> "classpath",
      in |-> [cp_output |-> o, destjar |-> d, extrastormcp |-> e],
      done |-> FALSE, out |-> <<>>] :
        o \in StringsOver({"a", "b", ":", "\n"}, MaxCpLen),
        d \in {<<"d">>, DestJar},
        e \in {None, <<>>, <<"/", "e">>}}

SubmitCalls ==
    {[f |-> "submit",
      in |-> [which_output |-> w, cp_output |-> o, destjar |-> DestJar,
              extrastormcp |-> e, name |-> n],
      done |-> FALSE, out |-> <<>>] :
        w \in StringsOver({"/", "s", "\n"}, MaxPathLen) \cup WhichOutputs,
        o \in CpOutputs,
        e \in {None, <<"/", "e">>},
        n \in {None, <<>>, <<"t">>, <<"t", "u">>}}

KillCalls ==
    {[f |-> "kill", in |-> [name |-> n, config |-> c], done |-> FALSE, out |-> <<>>] :
        n \in {<<>>, <<"t">>, <<"t", "u">>}, c \in Configs}

InitFn ==
    /\ scratch = AbsentDir
    /\ mvnCount = [v \in Versions |-> 0]
    /\ built = {}
    /\ pc = [p \in Procs |-> "idle"]
    /\ args = [p \in Procs |-> NoArgs]
    /\ loc = [p \in Procs |-> NoLocals]
    /\ res = [p \in Procs |-> NoResult]
    /\ log = [p \in Procs |-> <<>>]
    /\ start = [p \in Procs |-> [scratch |-> scratch, mvnCount |-> mvnCount]]
    /\ call \in VersionCalls \cup ClassPathCalls \cup SubmitCalls \cup KillCalls

Return(value) ==
    /\ ~call.done
    /\ call' = [call EXCEPT !.done = TRUE, !.out = value]
    /\ UNCHANGED <<scratch, mvnCount, built, pc, args, loc, res, log, start>>

FnGetStormVersion ==
    /\ call.f = "get_storm_version"
    /\ Return(get_storm_version(call.in))

\* the argument of "-cp": ":".join(storm_class_path)
FnClassPath ==
    /\ call.f = "classpath"
    /\ Return(Join(<<":">>, ClassPath(call.in.cp_output, call.in.destjar,
                                      call.in.extrastormcp)))

FnSubmit ==
    /\ call.f = "submit"
    /\ Return(SubmitArgv(StormHome(call.in.which_output),
                         ClassPath(call.in.cp_output, call.in.destjar,
                                   call.in.extrastormcp),
                         call.in.destjar, call.in.name))

FnKill ==
    /\ call.f = "kill"
    /\ Return(KillArgv(call.in.name, call.in.config))

NextFn == FnGetStormVersion \/ FnClassPath \/ FnSubmit \/ FnKill

SpecFn == InitFn /\ [][NextFn]_vars


(***************************************************************************)
(* Properties of the argument vectors and of get_storm_version (SpecFn).   *)
(***************************************************************************)
\* t is digit '.' digit '.' digit
IsTriple(t) ==
    /\ Len(t) = 5
    /\ t[1] \in Digit /\ t[3] \in Digit /\ t[5] \in Digit
    /\ t[2] = "." /\ t[4] = "."

\* the positions of s where a triple starts
TriplesIn(s) == {i \in 1..Len(s) : i + 4 <= Len(s) /\ IsTriple(SubSeq(s, i, i + 4))}

\* the positions of s that only whitespace precedes
AfterLeadingSpace(s) == {i \in 1..Len(s) : \A j \in 1..(i - 1) : s[j] \in Whitespace}

Min(S) == CHOOSE x \in S : \A y \in S : x <= y

\* str.split(sep) for a one-character sep: the pieces between the separators
RECURSIVE Split(_, _)
Split(s, sep) ==
    IF \A i \in 1..Len(s) : s[i] # sep
    THEN <<s>>
    ELSE LET k == Min({i \in 1..Len(s) : s[i] = sep})
         IN  <<SubSeq(s, 1, k - 1)>> \o Split(SubSeq(s, k + 1, Len(s)), sep)

VersionCallDone == call.f = "get_storm_version" /\ call.done

\* C9, as stated: whenever the output holds a triple anywhere, get_storm_version
\* returns the first one; when it holds none, it fails.
C9_AsStated ==
    VersionCallDone =>
        IF TriplesIn(call.in) # {}
        THEN LET i == Min(TriplesIn(call.in)) IN call.out = SubSeq(call.in, i, i + 4)
        ELSE call.out = AttributeError

\* C9, amended: get_storm_version returns a triple exactly when the output, after
\* its leading whitespace, begins with one; it returns that triple, whatever text
\* follows it.  In every other case (no triple, or a triple that other text
\* precedes) it fails.
C9_LeadingTriple ==
    VersionCallDone =>
        LET lead == TriplesIn(call.in) \cap AfterLeadingSpace(call.in)
        IN  IF lead # {}
            THEN \A i \in lead : call.out = SubSeq(call.in, i, i + 4)
            ELSE call.out = AttributeError

\* "1.2.1 a1" style: a triple, then text that is ignored
C9_Witness ==
    /\ VersionCallDone
    /\ IsTriple(call.out)
    /\ Len(call.in) > 6
    /\ call.in[6] = " " /\ call.in[7] = "a"

ClassPathCallDone == call.f = "classpath" /\ call.done

\* C7: the classpath handed to the launcher is the extra entry (when --extrastormcp
\* is given), then the installation's entries in the order reported, then the
\* destination artifact, joined with ":".
C7_ClasspathOrder ==
    ClassPathCallDone =>
        LET extra == IF call.in.extrastormcp # None
                     THEN <<call.in.extrastormcp>> ELSE <<>>
            installation == Split(Strip(call.in.cp_output), ":")
            entries == extra \o installation \o <<call.in.destjar>>
        IN  /\ call.out = Join(<<":">>, entries)
            /\ (\A e \in {extra, <<call.in.destjar>>} :
                    \A k \in 1..Len(e) : \A i \in 1..Len(e[k]) : e[k][i] # ":")
                    => Split(call.out, ":") = entries

\* installation classpath "a:b", artifact /x/d, extra entry /e
C7_Witness ==
    /\ ClassPathCallDone
    /\ call.in.cp_output = <<"a", ":", "b", "\n">>
    /\ call.in.extrastormcp = <<"/", "e">>
    /\ call.in.destjar = DestJar
    /\ Split(call.out, ":") = << <<"/", "e">>, <<"a">>, <<"b">>, DestJar >>

SubmitCallDone == call.f = "submit" /\ call.done

\* C8: the launcher argument vector is: program-name slot, client mode flag, empty
\* options override, installation-root property, "-cp" and the composed classpath,
\* destination-artifact property, launcher class name; then the job name, once, when
\* one is given (a name that is None or empty counts as not given), and nothing
\* else.
C8_SubmitVector ==
    SubmitCallDone =>
        LET argv == call.out
            given == call.in.name # None /\ Len(call.in.name) > 0
        IN  /\ Len(argv) = IF given THEN 9 ELSE 8
            /\ argv[1] = <<>>
            /\ argv[2] = <<"-client">>
            /\ argv[3] = <<"-Dstorm.options=">>
            /\ argv[4] = <<"-Dstorm.home=">> \o StormHome(call.in.which_output)
            /\ argv[5] = <<"-cp">>
            /\ argv[6] = Join(<<":">>, ClassPath(call.in.cp_output, call.in.destjar,
                                                 call.in.extrastormcp))
            /\ argv[7] = <<"-Dstorm.jar=">> \o call.in.destjar
            /\ argv[8] = <<"storm.petrel.GenericTopology">>
            /\ given => argv[9] = call.in.name

C8_Witness ==
    /\ SubmitCallDone
    /\ call.in.name = <<"t", "u">>
    /\ call.in.which_output \in WhichOutputs
    /\ Len(call.out) = 9 /\ call.out[9] = <<"t", "u">>
    /\ call.out[4] = <<"-Dstorm.home=", "/", "o">>

KillCallDone == call.f = "kill" /\ call.done

\* '%s' % value, for the values a configuration holds here
Str(value) == IF value = None THEN <<"N", "o", "n", "e">> ELSE value

\* C6, as stated: the host override is present if and only if the configuration
\* holds the key nimbus.host.
C6_AsStated ==
    KillCallDone =>
        LET h == call.in.config["nimbus.host"]
        IN  IF h # Absent
            THEN call.out = << <<>>, <<"kill">>, call.in.name, <<"-c">>,
                               <<"nimbus.host=">> \o Str(h) >>
            ELSE call.out = << <<>>, <<"kill">>, call.in.name >>

\* C6, amended: the vector is ["", "kill", n, "-c", "nimbus.host=h"] if and only if
\* the configuration holds nimbus.host with a value h that is neither null nor
\* empty; otherwise (no key, a null or an empty value) it is ["", "kill", n].  No
\* other key of the configuration changes it.
C6_KillVector ==
    KillCallDone =>
        LET h == call.in.config["nimbus.host"]
            n == call.in.name
        IN  IF h \notin {Absent, None, <<>>}
            THEN /\ Len(call.out) = 5
                 /\ call.out[1] = <<>> /\ call.out[2] = <<"kill">> /\ call.out[3] = n
                 /\ call.out[4] = <<"-c">>
                 /\ call.out[5] = <<"nimbus.host=">> \o h
            ELSE /\ Len(call.out) = 3
                 /\ call.out[1] = <<>> /\ call.out[2] = <<"kill">> /\ call.out[3] = n

C6_Witness ==
    /\ KillCallDone
    /\ call.in.config["nimbus.host"] = <<"f">>
    /\ call.in.config["topology.workers"] # Absent
    /\ call.out = << <<>>, <<"kill">>, call.in.name, <<"-c">>, <<"nimbus.host=", "f">> >>


(***************************************************************************)
(* Properties of one invocation at a time (Spec).                          *)
(***************************************************************************)
IsPrefix(a, b) == Len(a) <= Len(b) /\ a = SubSeq(b, 1, Len(a))

\* the steps of submit in their order; the first only without a source archive
SubmitOrder(sourcejar) ==
    (IF sourcejar \in {None, <<>>} THEN <<"resolve">> ELSE <<>>)
        \o <<"build_jar", "classpath", "which", "exec">>

\* the step of submit in which an error was raised
StepOf(error) ==
    IF error \in {"version", "version_parse", "rmtree", "mkdir", "mvn", "copyfile"}
    THEN "resolve"
    ELSE error

\* the error of the run of process p, raised or already reported
ErrorOf(p) == IF pc[p] = "except" THEN loc[p].failed ELSE res[p].error

\* C1: in every run of submit the steps entered so far are an initial part of
\* resolve (only without a source archive), build_jar, classpath, which, exec; the
\* process is replaced only after all of them, and a step that fails is the last
\* one of the run.
C1_SubmitOrder ==
    args[1].cmd = "submit" =>
        LET order == SubmitOrder(args[1].sourcejar)
        IN  /\ IsPrefix(log[1], order)
            /\ res[1].status = "replaced" => log[1] = order /\ res[1].prog = "java"
            /\ ErrorOf(1) = "parse_args" => log[1] = <<>>
            /\ ErrorOf(1) \notin {"none", "parse_args"} =>
                    /\ log[1] # <<>>
                    /\ log[1][Len(log[1])] = StepOf(ErrorOf(1))
                    /\ res[1].status # "replaced"

\* a run that resolved the archive and went through to the process replacement
C1_Witness ==
    /\ args[1].cmd = "submit"
    /\ res[1].status = "replaced"
    /\ log[1] = <<"resolve", "build_jar", "classpath", "which", "exec">>
    /\ scratch # start[1].scratch

SubmitExited == args[1].cmd = "submit" /\ res[1].status = "exited"

\* C2, as stated: no run of submit ends with exit status 0 without a process
\* replacement.
C2_AsStated == SubmitExited => res[1].code # 0

\* C2, amended: a run of submit that ends without a process replacement has exit
\* status 0 only when argparse printed the help (-h); a usage error ends it with
\* argparse's status 2, not through main's handler; every exception raised after
\* parsing (resolution, assembly, a query, the exec call) is caught by main's
\* handler and ends it with status 1.
C2_ExitStatus ==
    SubmitExited =>
        /\ res[1].code = 0 <=> args[1].parse = "help"
        /\ res[1].code = 2 <=> args[1].parse = "usage"
        /\ args[1].parse = "ok" => res[1].code = 1 /\ res[1].error # "none"

\* the exec call itself failed: caught, exit status 1
C2_Witness ==
    /\ SubmitExited
    /\ res[1].error = "exec"
    /\ res[1].code = 1

QueryFailed(errors) == SubmitExited /\ res[1].error \in errors

\* the archive of the version get_sourcejar read was in /tmp/petrel when the run began
CachedAtStart ==
    /\ loc[1].storm_version # None
    /\ start[1].scratch.kind = "dir"
    /\ JarPath(loc[1].storm_version) \in start[1].scratch.files

\* C3, as stated: a run of submit in which 'storm version', 'storm classpath' or
\* 'which storm' fails leaves /tmp/petrel as it was at the start of the run.
C3_AsStated == QueryFailed({"version", "classpath", "which"}) => scratch = start[1].scratch

\* C3, amended: a failure of one of the three commands ends the run with an error
\* (status 1).  A failed 'storm version' leaves /tmp/petrel as it was at the start
\* of the run.  A failed 'storm classpath' or 'which storm' leaves it so when the
\* run did not rebuild the archive: a source archive was supplied, or the archive of
\* the reported version was already there.  Otherwise what the rebuild did earlier
\* in the run stays.
C3_QueryFailure ==
    /\ QueryFailed({"version", "classpath", "which"}) => res[1].code = 1
    /\ QueryFailed({"version"}) => scratch = start[1].scratch
    /\ (QueryFailed({"classpath", "which"})
            /\ (Truthy(args[1].sourcejar) \/ CachedAtStart))
        => scratch = start[1].scratch

\* the second 'storm version' (in build_petrel_jar) failed, over stale contents
C3_Witness ==
    /\ QueryFailed({"version"})
    /\ loc[1].storm_version # None
    /\ scratch.kind = "dir" /\ StaleFile \in scratch.files

\* C4: when build_petrel_jar returns, /tmp/petrel holds exactly one file, the
\* archive of the version it read, whatever it held before.
C4_RebuildPurges ==
    pc[1] = "bp_return" =>
        scratch = [kind |-> "dir", files |-> {JarPath(loc[1].version)}]

\* a rebuild over a stale file and the archive of another version
C4_Witness ==
    /\ pc[1] = "bp_return"
    /\ start[1].scratch.kind = "dir"
    /\ StaleFile \in start[1].scratch.files
    /\ \E v \in Versions \ {loc[1].version} : JarPath(v) \in start[1].scratch.files

\* C5, as stated: mvn runs at most once for each version, also when the reported
\* version changes between calls.  So when the archives of two versions have been
\* built, mvn has not just run (in a call that read one version in both queries)
\* for a version whose archive an earlier call built.
C5_AsStated ==
    (/\ pc[1] = "bp_copy"
     /\ loc[1].version = loc[1].storm_version
     /\ built \ {loc[1].version} # {})
        => loc[1].version \notin built

\* C5, amended: a call of get_sourcejar that finds the archive of the reported
\* version in /tmp/petrel runs no build and changes nothing there; a call that does
\* not find it runs mvn once.  As each rebuild purges the directory, only the
\* archive built last is kept, and mvn runs again for a version whose archive a
\* later rebuild (of another version) removed, or whose build failed.
C5_BuildOnMiss ==
    /\ (scratch # start[1].scratch \/ mvnCount # start[1].mvnCount) => ~CachedAtStart
    /\ \A v \in Versions :
        /\ mvnCount[v] <= start[1].mvnCount[v] + 1
        /\ mvnCount[v] # start[1].mvnCount[v] => loc[1].version = v

\* the archive was there: get_sourcejar returned it, after an earlier run built it
C5_Witness ==
    /\ pc[1] = "build_jar"
    /\ CachedAtStart
    /\ loc[1].sourcejar = JarPath(loc[1].storm_version)
    /\ mvnCount[loc[1].storm_version] = 1
    /\ loc[1].storm_version \in built

(***************************************************************************)
(* Two invocations side by side (SpecRace).                                *)
(***************************************************************************)
Other(p) == IF p = 1 THEN 2 ELSE 1

\* get_sourcejar returned to submit in process p
Resolved(p) == args[p].cmd = "submit" /\ loc[p].sourcejar # None

\* C10: an invocation that runs alone (the other has not started) and whose
\* get_sourcejar returns, having read one version throughout, finds the archive at
\* the path returned.  With two invocations side by side this fails: see the
\* witness.
C10_AloneArchivePresent ==
    \A p \in Procs :
        (/\ Resolved(p)
         /\ pc[Other(p)] = "idle"
         /\ loc[p].version \in {None, loc[p].storm_version})
        => IsFile(loc[p].sourcejar)

\* two invocations that read the same version; get_sourcejar of one returned a
\* path, and the purge of the other has removed the archive from it
C10_Witness ==
    \E p \in Procs :
        /\ Resolved(p) /\ pc[p] = "build_jar"
        /\ loc[Other(p)].storm_version = loc[p].storm_version
        /\ loc[p].version \in {None, loc[p].storm_version}
        /\ loc[Other(p)].version = loc[p].storm_version
        /\ pc[Other(p)] \in {"bp_mkdir", "bp_mvn", "bp_copy"}
        /\ ~IsFile(loc[p].sourcejar)

=============================================================================
